---- MODULE Spec2Model ----
(***************************************************************************)
(* A model of the RESUME dashboard (src/app.py): the SQLite record store,  *)
(* the cached table load, entry validation and insertion, the admin        *)
(* operations (backup, clear, bulk replace) and the filter engine.         *)
(*                                                                         *)
(* Encoding of values.  A text value is a sequence of one-character        *)
(* strings, so that substring and pattern search can be computed.  Python  *)
(* None / SQL NULL / pandas NaN is None (integer cells) or NoneTxt (text   *)
(* cells).  A dict is [keys |-> the keys present, val |-> the values].     *)
(* A DataFrame is [cols |-> its column names, rows |-> its rows in order]. *)
(***************************************************************************)
EXTENDS Integers, Sequences, FiniteSets, TLC

VARIABLES
    store,      \* rows of table resume_data in the database file, in rowid order
    schema,     \* [cols, autoinc]: columns of the table; whether id is AUTOINCREMENT
    seq,        \* sqlite_sequence.seq of the table: the largest id ever assigned
    cache,      \* st.cache_data entry of load_data: [set, df]
    lastOp,     \* the call that ran last and its outcome
    phase,      \* progress through the scenario clear -> insert -> load
    fdf,        \* apply_filters: the table it is given
    fterm,      \* apply_filters: search_term
    fvars,      \* apply_filters: filter_vars
    fout,       \* apply_filters: its outcome [done, raised, df]
    fagain,     \* apply_filters applied to its own result: [done, raised, df]
    choice,     \* analysis_choice: the radio button of the sidebar
    run,        \* how many times the script has run display_dashboard
    aout,       \* what display_dashboard did in its last run
    eout,       \* what display_filtered_results and export_data did
    conn,       \* the sqlite3 connections of the operation in progress
    ui          \* the widgets of the Database (Backend) and Data Entry tabs

storeVars == <<store, schema, seq, cache, lastOp, phase>>
filterVars == <<fdf, fterm, fvars, fout, fagain>>
analysisVars == <<choice, run, aout>>
sessionVars == <<eout, conn, ui>>
vars == <<store, schema, seq, cache, lastOp, phase, fdf, fterm, fvars, fout,
          fagain, choice, run, aout, eout, conn, ui>>

---------------------------------------------------------------------------
(* Bounds of the model *)

MaxRows == 2

\* The largest id the model lets AUTOINCREMENT assign.
MaxId == MaxRows

---------------------------------------------------------------------------
(* Values *)

None == -1
NoneTxt == <<"None">>

Male == <<"M", "a", "l", "e">>
Female == <<"F", "e", "m", "a", "l", "e">>
FullTime == <<"F", "u", "l", "l">>
Nurse == <<"N", "u", "r", "s", "e">>
Doctor == <<"D", "o", "c", "t", "o", "r">>
Surgery == <<"S", "u", "r", "g", "e", "r", "y">>
Emergency == <<"E", "R">>

\* The columns of the table that the model keeps (of the 48 created).
DataCols == {"Age", "Sex", "Employment_Status", "Healthcare_Role", "Department",
             "Suicidal_Distress", "Crisis_Event"}
AllCols == {"id"} \cup DataCols
TextCols == {"Sex", "Employment_Status", "Healthcare_Role", "Department"}

EmptyDF == [cols |-> {}, rows |-> <<>>]

---------------------------------------------------------------------------
(* dict access *)

\* data.get(field) for an integer-valued field
GetInt(data, f) == IF f \in data.keys THEN data.val[f] ELSE None

\* data.get(field) for a text-valued field
GetTxt(data, f) == IF f \in data.keys THEN data.val[f] ELSE NoneTxt

\* "if field not in data" in place of "if not data.get(field)".
TruthyMutant(data, f) == f \in data.keys

\* Python truthiness of data.get(field)
Truthy(data, f) ==
    IF f \in TextCols
    THEN GetTxt(data, f) # NoneTxt /\ GetTxt(data, f) # <<>>
    ELSE GetInt(data, f) # None /\ GetInt(data, f) # 0

---------------------------------------------------------------------------
(* validate_entry_data *)

required_fields == <<"Age", "Sex", "Employment_Status", "Healthcare_Role">>

\* The first required field whose value is falsy, 0 when there is none.
FirstMissing(data) ==
    LET bad == {i \in 1..Len(required_fields) : ~Truthy(data, required_fields[i])}
    IN  IF bad = {} THEN 0 ELSE CHOOSE i \in bad : \A j \in bad : i <= j

\* The upper bound of the Age check left out.
AgeTooOldMutant(age) == FALSE

\* data['Age'] > 100
AgeTooOld(age) == age > 100

\* data['Age'] < 18
AgeTooYoung(age) == age < 18

\* f"{field} is required"
RequiredMsg == <<"Age is required", "Sex is required",
                 "Employment_Status is required", "Healthcare_Role is required">>

\* (is_valid, error_message); an exception inside the try is returned as
\* (False, str(e)).
validate_entry_data(data) ==
    IF "Age" \notin data.keys
    THEN [ok |-> FALSE, msg |-> "KeyError"]
    ELSE IF data.val["Age"] = None
    THEN [ok |-> FALSE, msg |-> "TypeError"]
    ELSE IF AgeTooYoung(data.val["Age"]) \/ AgeTooOld(data.val["Age"])
    THEN [ok |-> FALSE, msg |-> "Age must be between 18 and 100"]
    ELSE IF FirstMissing(data) # 0
    THEN [ok |-> FALSE, msg |-> RequiredMsg[FirstMissing(data)]]
    ELSE [ok |-> TRUE, msg |-> ""]

---------------------------------------------------------------------------
(* The record store *)

\* The row that INSERT INTO resume_data (keys) VALUES (values) stores.
NewRow(id, data) ==
    [id |-> id,
     Age |-> GetInt(data, "Age"),
     Sex |-> GetTxt(data, "Sex"),
     Employment_Status |-> GetTxt(data, "Employment_Status"),
     Healthcare_Role |-> GetTxt(data, "Healthcare_Role"),
     Department |-> GetTxt(data, "Department"),
     Suicidal_Distress |-> GetInt(data, "Suicidal_Distress"),
     Crisis_Event |-> GetInt(data, "Crisis_Event")]

\* INSERT OR REPLACE in place of INSERT: the newest row is overwritten.
InsertIntoMutant(rows, row) ==
    IF rows = <<>> THEN <<row>> ELSE [rows EXCEPT ![Len(rows)] = row]

\* cursor.execute("INSERT INTO ...") and commit: the table with the new row.
InsertInto(rows, row) == Append(rows, row)

\* The id SQLite assigns to a row inserted without one.
NextId == IF schema.autoinc THEN seq + 1 ELSE None

\* The argument recorded for a call that takes no dict.
NoArg == [keys |-> {}, val |-> <<>>]

\* What the last call was, the dict it was given and how it ended.
Outcome(op, ok, err, msg) ==
    [op |-> op, ok |-> ok, err |-> err, msg |-> msg, arg |-> NoArg]

\* The outcome of insert_entry(data).
InsertOutcome(data, ok, err, msg) ==
    [op |-> "insert", ok |-> ok, err |-> err, msg |-> msg, arg |-> data]

\* The scenario of the clear/insert/load example: where a call leaves it.
PhaseAfter(op, ok) ==
    IF ~ok THEN phase
    ELSE IF op = "clear" THEN "cleared"
    ELSE IF op = "insert" THEN (IF phase = "cleared" THEN "reinserted" ELSE "other")
    ELSE IF op = "load" THEN phase
    ELSE "other"

\* SELECT * FROM resume_data read into a DataFrame.  The numeric columns are
\* already numeric, so pd.to_numeric leaves their values as they are.
ReadTable == [cols |-> schema.cols, rows |-> store]

---------------------------------------------------------------------------
(* Inputs *)

BaseEntry ==
    [keys |-> DataCols,
     val |-> [Age |-> 18, Sex |-> Male, Employment_Status |-> FullTime,
              Healthcare_Role |-> Nurse, Department |-> Emergency,
              Suicidal_Distress |-> 0, Crisis_Event |-> 0]]

With(data, f, v) == [data EXCEPT !.val[f] = v]

Without(data, f) == [data EXCEPT !.keys = @ \ {f}]

\* The dicts insert_entry is called with.
InsertInputs ==
    { BaseEntry,
      With(With(With(With(With(BaseEntry, "Age", 100), "Sex", Female),
                     "Healthcare_Role", Doctor), "Suicidal_Distress", 11),
           "Crisis_Event", 2),
      With(BaseEntry, "Age", 17),
      With(BaseEntry, "Age", 101),
      With(BaseEntry, "Age", 0),
      With(BaseEntry, "Age", None),
      Without(BaseEntry, "Age"),
      With(BaseEntry, "Sex", <<>>),
      With(BaseEntry, "Sex", NoneTxt),
      Without(BaseEntry, "Employment_Status"),
      With(BaseEntry, "Healthcare_Role", <<>>),
      With(With(BaseEntry, "Age", 101), "Sex", <<>>) }

GridRow(id, age, sex, role, dept) ==
    [id |-> id, Age |-> age, Sex |-> sex, Employment_Status |-> FullTime,
     Healthcare_Role |-> role, Department |-> dept,
     Suicidal_Distress |-> 0, Crisis_Event |-> 0]

\* The DataFrames update_database_entries is called with: the table as it
\* stands, and edited grids.
ReplaceInputs ==
    { ReadTable,
      [cols |-> AllCols, rows |-> <<GridRow(1, 18, Male, Nurse, Emergency)>>],
      [cols |-> AllCols, rows |-> <<GridRow(1, 18, Male, Nurse, Emergency),
                                   GridRow(2, 17, Female, Doctor, Surgery)>>],
      [cols |-> AllCols \ {"Department"},
       rows |-> <<GridRow(2, 100, Female, Doctor, NoneTxt)>>] }

---------------------------------------------------------------------------
(* Operations *)

\* The state after create_database, before any load.
InitStore ==
    /\ store = <<>>
    /\ schema = [cols |-> AllCols, autoinc |-> TRUE]
    /\ seq = 0
    /\ cache = [set |-> FALSE, df |-> EmptyDF]
    /\ lastOp = Outcome("create", TRUE, "none", "")
    /\ phase = "other"

NotFiltered == [done |-> FALSE, raised |-> FALSE, df |-> EmptyDF]

\* The options of the radio "Choose Analysis Model:".
KaplanMeier == "Kaplan-Meier Estimator"
CoxPH == "Cox Proportional Hazards Model"
Bayesian == "Bayesian Spatio-Temporal Model"
XGBoost == "Machine Learning (XGBoost)"
AnalysisChoices == {KaplanMeier, CoxPH, Bayesian, XGBoost}

\* No model was fitted: fit was not called, nothing was split.
NoFit == [called |-> FALSE, rows |-> <<>>]
NoSplit == [done |-> FALSE, train |-> <<>>, test |-> <<>>]

\* display_dashboard has not run yet.
NotAnalysed ==
    [done |-> FALSE, shown |-> "none", msg |-> "", escaped |-> "none",
     input |-> EmptyDF, source |-> EmptyDF, work |-> <<>>,
     fit |-> NoFit, surv |-> <<>>, split |-> NoSplit]

\* The dashboard before its first run: the radio shows its first option.
AnalysisIdle ==
    /\ choice = KaplanMeier
    /\ run = 0
    /\ aout = NotAnalysed

\* display_filtered_results has not run yet.
NotExported ==
    [done |-> FALSE, shown |-> "none", offered |-> {}, selected |-> <<>>,
     format |-> "none", exported |-> FALSE,
     table |-> [header |-> <<>>, rows |-> <<>>], data |-> <<>>]

\* No operation is in progress and no connection is open.
NoConnection ==
    [op |-> "idle", pc |-> "idle", main |-> FALSE, target |-> FALSE,
     leaked |-> 0, last |-> "none", raised |-> FALSE]

\* The widgets before the script has run.
NoWidgets ==
    [edit_mode |-> FALSE, rendered |-> {}, confirm |-> FALSE, called |-> "none",
     recent |-> "none", pressed |-> "none", ticked |-> FALSE, stage |-> "idle"]

\* Nothing was exported, no operation is in progress, the script has not run.
SessionIdle ==
    /\ eout = NotExported
    /\ conn = NoConnection
    /\ ui = NoWidgets

Init ==
    /\ InitStore
    /\ fdf = EmptyDF
    /\ fterm = <<>>
    /\ fvars = [keys |-> {}]
    /\ fout = NotFiltered
    /\ fagain = NotFiltered
    /\ AnalysisIdle
    /\ SessionIdle

\* insert_entry(data) when validation rejects the entry
InsertRejected(data) ==
    /\ ~validate_entry_data(data).ok
    /\ lastOp' = InsertOutcome(data, FALSE, "validation", validate_entry_data(data).msg)
    /\ UNCHANGED <<store, schema, seq, cache, phase>>

\* insert_entry(data) when sqlite3 raises: the connection fails, or the table
\* has no column for one of the keys
InsertFailed(data) ==
    /\ validate_entry_data(data).ok
    /\ lastOp' = InsertOutcome(data, FALSE, "storage",
                               IF data.keys \subseteq schema.cols THEN "connection"
                               ELSE "no such column")
    /\ UNCHANGED <<store, schema, seq, cache, phase>>

\* insert_entry(data) when the row is inserted and committed
InsertStored(data) ==
    /\ validate_entry_data(data).ok
    /\ data.keys \subseteq schema.cols
    /\ Len(store) < MaxRows
    /\ schema.autoinc => seq < MaxId
    /\ store' = InsertInto(store, NewRow(NextId, data))
    /\ seq' = IF schema.autoinc THEN seq + 1 ELSE seq
    /\ lastOp' = InsertOutcome(data, TRUE, "none", "")
    /\ phase' = PhaseAfter("insert", TRUE)
    /\ UNCHANGED <<schema, cache>>

insert_entry(data) ==
    \/ InsertRejected(data)
    \/ InsertFailed(data)
    \/ InsertStored(data)

\* load_data() answered from the cache
LoadHit ==
    /\ cache.set
    /\ lastOp' = Outcome("load", TRUE, "none", "hit")
    /\ UNCHANGED <<store, schema, seq, cache, phase>>

\* load_data without its try/except: the exception of a failed read leaves
\* the function, and st.cache_data stores nothing.
LoadMissMutant ==
    /\ ~cache.set
    /\ \E up \in BOOLEAN :
        /\ cache' = IF up THEN [set |-> TRUE, df |-> ReadTable] ELSE cache
        /\ lastOp' = Outcome("load", up, IF up THEN "none" ELSE "storage", "miss")
    /\ UNCHANGED <<store, schema, seq, phase>>

\* load_data() run: the result, or the empty DataFrame of the except branch,
\* is stored in the cache
LoadMiss ==
    /\ ~cache.set
    /\ \E up \in BOOLEAN :
        /\ cache' = [set |-> TRUE, df |-> IF up THEN ReadTable ELSE EmptyDF]
        /\ lastOp' = Outcome("load", TRUE, IF up THEN "none" ELSE "storage", "miss")
    /\ UNCHANGED <<store, schema, seq, phase>>

load_data == LoadHit \/ LoadMiss

\* The entry has been cached for an hour: st.cache_data(ttl=3600) drops it.
\* Until this step the one-hour timer of the entry has not expired.
Expire ==
    /\ cache.set
    /\ cache' = [set |-> FALSE, df |-> EmptyDF]
    /\ UNCHANGED <<store, schema, seq, lastOp, phase>>

\* clear_database(): DELETE FROM resume_data, or the exception re-raised
clear_database ==
    /\ \E up \in BOOLEAN :
        /\ store' = IF up THEN <<>> ELSE store
        /\ lastOp' = Outcome("clear", up, IF up THEN "none" ELSE "storage", "")
        /\ phase' = PhaseAfter("clear", up)
    /\ UNCHANGED <<schema, seq, cache>>

\* df.to_sql(if_exists='append', index=False) in place of 'replace': the
\* rows of df are added to the table, which keeps its rows and its columns.
update_database_entriesMutant(df) ==
    /\ Len(store) + Len(df.rows) <= MaxRows + MaxRows
    /\ df.cols \subseteq schema.cols
    /\ \E up \in BOOLEAN :
        /\ store' = IF up THEN store \o df.rows ELSE store
        /\ lastOp' = Outcome("replace", up, IF up THEN "none" ELSE "storage", "")
        /\ phase' = PhaseAfter("replace", up)
    /\ UNCHANGED <<schema, seq, cache>>

\* update_database_entries(df): df.to_sql(if_exists='replace', index=False)
\* drops the table and creates one with the columns of df, none a key.
update_database_entries(df) ==
    /\ Len(df.rows) <= MaxRows
    /\ \E up \in BOOLEAN :
        /\ store' = IF up THEN df.rows ELSE store
        /\ schema' = IF up THEN [cols |-> df.cols, autoinc |-> FALSE] ELSE schema
        /\ seq' = IF up THEN 0 ELSE seq
        /\ lastOp' = Outcome("replace", up, IF up THEN "none" ELSE "storage", "")
        /\ phase' = PhaseAfter("replace", up)
    /\ UNCHANGED cache

\* backup_database(): the database is copied to a file under backups/, which
\* the application never reads.
backup_database ==
    /\ \E up \in BOOLEAN :
        lastOp' = Outcome("backup", up, IF up THEN "none" ELSE "storage", "")
    /\ UNCHANGED <<store, schema, seq, cache, phase>>

Next ==
    \/ \E data \in InsertInputs : insert_entry(data) /\ UNCHANGED <<filterVars, analysisVars, sessionVars>>
    \/ load_data /\ UNCHANGED <<filterVars, analysisVars, sessionVars>>
    \/ Expire /\ UNCHANGED <<filterVars, analysisVars, sessionVars>>
    \/ clear_database /\ UNCHANGED <<filterVars, analysisVars, sessionVars>>
    \/ \E df \in ReplaceInputs : update_database_entries(df) /\ UNCHANGED <<filterVars, analysisVars, sessionVars>>
    \/ backup_database /\ UNCHANGED <<filterVars, analysisVars, sessionVars>>

Spec == Init /\ [][Next]_vars

---------------------------------------------------------------------------
(* The filter engine *)

LowerMap ==
    [A |-> "a", B |-> "b", C |-> "c", D |-> "d", E |-> "e", F |-> "f", G |-> "g",
     H |-> "h", I |-> "i", J |-> "j", K |-> "k", L |-> "l", M |-> "m", N |-> "n",
     O |-> "o", P |-> "p", Q |-> "q", R |-> "r", S |-> "s", T |-> "t", U |-> "u",
     V |-> "v", W |-> "w", X |-> "x", Y |-> "y", Z |-> "z"]

\* case=False: characters are compared without regard to case.
Lower(c) == IF c \in DOMAIN LowerMap THEN LowerMap[c] ELSE c

\* astype(str): the string form of a cell; None becomes the text "None".
AsStr(v) == IF v = NoneTxt THEN <<"N", "o", "n", "e">> ELSE v

\* re.compile(pat): an unbalanced parenthesis is not a regular expression.
Compiles(pat) == \A k \in 1..Len(pat) : pat[k] # "("

\* The pattern matches s at position i: "." matches any character.
MatchAt(pat, s, i) ==
    /\ i + Len(pat) - 1 <= Len(s)
    /\ \A k \in 1..Len(pat) : pat[k] = "." \/ Lower(pat[k]) = Lower(s[i + k - 1])

\* Series.str.contains(pat, case=False, na=False), regex=True by default:
\* re.search of the compiled pattern in the cell.
StrContains(pat, s) == \E i \in 1..(Len(s) + 1) : MatchAt(pat, s, i)

\* The columns select_dtypes(include=['object']) finds.
ObjectCols(df) == TextCols \cap df.cols

\* mask: the term is found in one of the object columns of the row.
TextMask(df, term, row) ==
    \E col \in ObjectCols(df) : StrContains(term, AsStr(row[col]))

\* (Age >= age_range[0]) & (Age <= age_range[1]); a NaN compares False.
AgeMask(range, row) ==
    row.Age # None /\ row.Age >= range[1] /\ row.Age <= range[2]

\* Sex.isin(selected_genders)
SexMask(genders, row) == row.Sex \in genders

\* The filters apply_filters reads from filter_vars.
FiltersRead == {"age_range", "selected_genders"}

\* The column each filter of apply_filters indexes.
FilterCol == [age_range |-> "Age", selected_genders |-> "Sex"]

\* filter_vars.get('age_range', (18, 40)) in place of the test
\* 'age_range' in filter_vars: the Age filter is applied with a default range.
apply_filtersMutant(df, search_term, filter_vars) ==
    LET searched == search_term # <<>>
        used == FiltersRead \cap filter_vars.keys
        range == IF "age_range" \in used THEN filter_vars.val.age_range ELSE <<18, 40>>
        bad == (searched /\ ObjectCols(df) # {} /\ ~Compiles(search_term))
               \/ "Age" \notin df.cols
               \/ \E f \in used : FilterCol[f] \notin df.cols
        Keep(row) ==
            /\ searched => TextMask(df, search_term, row)
            /\ AgeMask(range, row)
            /\ "selected_genders" \in used
                   => SexMask(filter_vars.val.selected_genders, row)
    IN  IF bad THEN [raised |-> TRUE, df |-> EmptyDF]
        ELSE [raised |-> FALSE,
              df |-> [cols |-> df.cols, rows |-> SelectSeq(df.rows, Keep)]]

\* filtered_df[mask.shift(1, fill_value=False)] in place of filtered_df[mask]:
\* a row is kept when the row before it passes.
apply_filtersShiftMutant(df, search_term, filter_vars) ==
    LET searched == search_term # <<>>
        used == FiltersRead \cap filter_vars.keys
        bad == (searched /\ ObjectCols(df) # {} /\ ~Compiles(search_term))
               \/ \E f \in used : FilterCol[f] \notin df.cols
        Keep(row) ==
            /\ searched => TextMask(df, search_term, row)
            /\ "age_range" \in used => AgeMask(filter_vars.val.age_range, row)
            /\ "selected_genders" \in used
                   => SexMask(filter_vars.val.selected_genders, row)
        kept == {i \in 2..Len(df.rows) : Keep(df.rows[i - 1])}
        Pick[i \in 0..Len(df.rows)] ==
            IF i = 0 THEN <<>>
            ELSE IF i \in kept THEN Append(Pick[i - 1], df.rows[i]) ELSE Pick[i - 1]
    IN  IF bad THEN [raised |-> TRUE, df |-> EmptyDF]
        ELSE [raised |-> FALSE, df |-> [cols |-> df.cols, rows |-> Pick[Len(df.rows)]]]

\* apply_filters(df, search_term, filter_vars): [raised, df].  re.error from
\* the search, and KeyError from indexing an absent column, are not caught.
apply_filters(df, search_term, filter_vars) ==
    LET searched == search_term # <<>>
        used == FiltersRead \cap filter_vars.keys
        bad == (searched /\ ObjectCols(df) # {} /\ ~Compiles(search_term))
               \/ \E f \in used : FilterCol[f] \notin df.cols
        Keep(row) ==
            /\ searched => TextMask(df, search_term, row)
            /\ "age_range" \in used => AgeMask(filter_vars.val.age_range, row)
            /\ "selected_genders" \in used
                   => SexMask(filter_vars.val.selected_genders, row)
    IN  IF bad THEN [raised |-> TRUE, df |-> EmptyDF]
        ELSE [raised |-> FALSE,
              df |-> [cols |-> df.cols, rows |-> SelectSeq(df.rows, Keep)]]

---------------------------------------------------------------------------
(* Inputs of the filter engine *)

MaxFilterRows == 2

\* A row of a DataFrame with the given columns: the other cells are absent.
Project(row, cols) ==
    [id |-> IF "id" \in cols THEN row.id ELSE None,
     Age |-> IF "Age" \in cols THEN row.Age ELSE None,
     Sex |-> IF "Sex" \in cols THEN row.Sex ELSE NoneTxt,
     Employment_Status |->
         IF "Employment_Status" \in cols THEN row.Employment_Status ELSE NoneTxt,
     Healthcare_Role |->
         IF "Healthcare_Role" \in cols THEN row.Healthcare_Role ELSE NoneTxt,
     Department |-> IF "Department" \in cols THEN row.Department ELSE NoneTxt,
     Suicidal_Distress |->
         IF "Suicidal_Distress" \in cols THEN row.Suicidal_Distress ELSE None,
     Crisis_Event |-> IF "Crisis_Event" \in cols THEN row.Crisis_Event ELSE None]

FilterRows ==
    { GridRow(1, 18, Male, Nurse, Emergency),
      [GridRow(2, 100, Female, Doctor, Surgery)
          EXCEPT !.Suicidal_Distress = 7, !.Crisis_Event = 1],
      GridRow(3, 40, NoneTxt, Nurse, NoneTxt) }

FilterColSets == {AllCols, AllCols \ {"Age"}, AllCols \ {"Sex"}}

RowSeqs(n) == UNION {[1..k -> FilterRows] : k \in 0..n}

FilterTables ==
    {[cols |-> c, rows |-> [i \in DOMAIN rs |-> Project(rs[i], c)]] :
        c \in FilterColSets, rs \in RowSeqs(MaxFilterRows)}

SearchTerms ==
    { <<>>, <<"m", "a", "l", "e">>, <<"N", "U", "R">>, <<"m", ".", "l">>, <<".">>,
      <<"(">>, <<"o", "n", "e">>, <<"x">> }

AllChoices ==
    [age_range |-> <<18, 100>>, selected_genders |-> {Male, Female, NoneTxt},
     selected_roles |-> {Nurse, Doctor}, selected_departments |-> {Emergency, Surgery, NoneTxt},
     risk_level |-> <<0, 10>>, crisis_filter |-> {0, 1}]

FilterKeys == DOMAIN AllChoices

\* The locals() of display_database_front that are filter selections.
FilterVars ==
    { [keys |-> {}, val |-> AllChoices],
      [keys |-> FilterKeys, val |-> AllChoices],
      [keys |-> {"age_range"}, val |-> [AllChoices EXCEPT !.age_range = <<18, 40>>]],
      [keys |-> {"age_range"}, val |-> [AllChoices EXCEPT !.age_range = <<19, 99>>]],
      [keys |-> {"selected_genders"},
       val |-> [AllChoices EXCEPT !.selected_genders = {Female}]],
      [keys |-> {"selected_genders"},
       val |-> [AllChoices EXCEPT !.selected_genders = {}]],
      [keys |-> FilterKeys, val |-> [AllChoices EXCEPT !.selected_roles = {Doctor}]],
      [keys |-> FilterKeys,
       val |-> [AllChoices EXCEPT !.selected_departments = {Surgery}]],
      [keys |-> FilterKeys, val |-> [AllChoices EXCEPT !.risk_level = <<5, 10>>]],
      [keys |-> FilterKeys, val |-> [AllChoices EXCEPT !.crisis_filter = {1}]],
      [keys |-> FilterKeys,
       val |-> [AllChoices EXCEPT !.age_range = <<18, 40>>,
                                  !.selected_genders = {Male}]] }

InitFilter ==
    /\ InitStore
    /\ fdf \in FilterTables
    /\ fterm \in SearchTerms
    /\ fvars \in FilterVars
    /\ fout = NotFiltered
    /\ fagain = NotFiltered
    /\ AnalysisIdle
    /\ SessionIdle

\* filtered_df = apply_filters(df, search_term, locals())
ApplyFilters ==
    /\ ~fout.done
    /\ fout' = [done |-> TRUE,
                raised |-> apply_filters(fdf, fterm, fvars).raised,
                df |-> apply_filters(fdf, fterm, fvars).df]
    /\ UNCHANGED <<fdf, fterm, fvars, fagain>>
    /\ UNCHANGED <<storeVars, analysisVars, sessionVars>>

\* apply_filters(filtered_df, search_term, filter_vars): the same criteria
\* applied to the table the first call returned.
ApplyAgain ==
    /\ fout.done /\ ~fout.raised
    /\ ~fagain.done
    /\ fagain' = [done |-> TRUE,
                  raised |-> apply_filters(fout.df, fterm, fvars).raised,
                  df |-> apply_filters(fout.df, fterm, fvars).df]
    /\ UNCHANGED <<fdf, fterm, fvars, fout>>
    /\ UNCHANGED <<storeVars, analysisVars, sessionVars>>

NextFilter == ApplyFilters \/ ApplyAgain

SpecFilter == InitFilter /\ [][NextFilter]_vars

---------------------------------------------------------------------------
(* The analysis pipeline: display_dashboard and display_risk_analysis *)

MaxAnalysisRows == 3
MaxRuns == 2

\* The columns the analyses read, besides Age and Crisis_Event.
RiskCols == {"Time_To_Crisis", "Work_Stress_Level", "Burnout_Level",
             "Social_Isolation", "Hopelessness", "Despair"}
AnalysisCols == AllCols \cup RiskCols

covariates == {"Age", "Work_Stress_Level", "Burnout_Level", "Social_Isolation"}
feature_cols == {"Age", "Work_Stress_Level", "Burnout_Level",
                 "Social_Isolation", "Hopelessness", "Despair"}
DurationEvent == {"Time_To_Crisis", "Crisis_Event"}

\* The value of a cell that holds nothing: None in a text column, NaN in a
\* numeric one.
Missing(col) == IF col \in TextCols THEN NoneTxt ELSE None

\* df.empty: no rows or no columns
IsEmpty(df) == df.rows = <<>> \/ df.cols = {}

\* df[cols]: the rows with the given columns only
Select(rows, cols) == [i \in DOMAIN rows |-> [c \in cols |-> rows[i][c]]]

\* dropna(subset=['Time_To_Crisis', 'Crisis_Event']) in place of dropna():
\* rows with a missing covariate stay.
DropNaMutant(rows, cols) ==
    LET Complete(row) == \A c \in cols \cap DurationEvent : row[c] # Missing(c)
    IN  SelectSeq(rows, Complete)

\* dropna(): the rows with no missing value in any of the columns
DropNa(rows, cols) ==
    LET Complete(row) == \A c \in cols : row[c] # Missing(c)
    IN  SelectSeq(rows, Complete)

\* ---- Kaplan-Meier: KaplanMeierFitter().fit(durations, event_observed) ----

\* The elements of a set of numbers in increasing order.
Sorted(S) ==
    CHOOSE sq \in [1..Cardinality(S) -> S] :
        \A i, j \in 1..Cardinality(S) : i < j => sq[i] < sq[j]

\* The rows at risk just before t counted after the events at t are removed.
AtRiskMutant(rows, t) == Cardinality({i \in DOMAIN rows : rows[i].Time_To_Crisis > t})

\* The number of rows still at risk at time t: their duration is at least t.
AtRisk(rows, t) == Cardinality({i \in DOMAIN rows : rows[i].Time_To_Crisis >= t})

\* The number of events observed at time t.
EventsAt(rows, t) ==
    Cardinality({i \in DOMAIN rows :
                    rows[i].Time_To_Crisis = t /\ rows[i].Crisis_Event # 0})

\* survival_function_: at each time of the timeline (0 and the durations) the
\* product over the times up to it of (at risk - events) / at risk, kept as
\* the fraction num / den.
KaplanMeierFit(rows) ==
    LET tl == Sorted({0} \cup {rows[i].Time_To_Crisis : i \in DOMAIN rows})
        S[k \in 0..Len(tl)] ==
            IF k = 0 THEN [t |-> 0, num |-> 1, den |-> 1]
            ELSE [t |-> tl[k],
                  num |-> S[k - 1].num * (AtRisk(rows, tl[k]) - EventsAt(rows, tl[k])),
                  den |-> S[k - 1].den * AtRisk(rows, tl[k])]
    IN  [k \in 1..Len(tl) |-> S[k]]

\* display_kaplan_meier_analysis(df), called inside the try of
\* display_risk_analysis.  fit is given the two columns as they are; it raises
\* TypeError when one of them holds a NaN, which display_risk_analysis reports.
display_kaplan_meier_analysis(df, base) ==
    IF DurationEvent \subseteq df.cols
    THEN IF DropNa(df.rows, DurationEvent) # df.rows
         THEN [base EXCEPT !.shown = "error",
                           !.msg = "Error performing risk analysis. Please check the data format.",
                           !.fit = [called |-> TRUE, rows |-> Select(df.rows, DurationEvent)]]
         ELSE [base EXCEPT !.shown = "plot",
                           !.fit = [called |-> TRUE, rows |-> Select(df.rows, DurationEvent)],
                           !.surv = KaplanMeierFit(df.rows)]
    ELSE [base EXCEPT !.shown = "warning",
                      !.msg = "Required data for Kaplan-Meier analysis is not available."]

\* ---- Cox: cox_data = df[[...]].dropna(); cph.fit(cox_data, ...) ----

\* df.dropna(subset=..., inplace=True); cox_data = df: the rows are dropped
\* from the table the caller passed.
CoxPrepareMutant(df) ==
    [source |-> [df EXCEPT !.rows = DropNa(df.rows, DurationEvent \cup covariates)],
     work |-> DropNa(Select(df.rows, DurationEvent \cup covariates),
                     DurationEvent \cup covariates)]

\* cox_data = df[['Time_To_Crisis', 'Crisis_Event'] + covariates].dropna():
\* a new DataFrame; the table passed in (source) keeps its rows.
CoxPrepare(df) ==
    [source |-> df,
     work |-> DropNa(Select(df.rows, DurationEvent \cup covariates),
                     DurationEvent \cup covariates)]

\* display_cox_analysis(df).  fits: whether cph.fit and the plots succeed
\* (the fit raises when it does not converge).
display_cox_analysis(df, base, fits) ==
    LET failed == [base EXCEPT !.shown = "error",
                       !.msg = "Error performing Cox analysis. Please check the data format."]
    IN  IF DurationEvent \subseteq df.cols
        THEN IF ~(covariates \subseteq df.cols)
             THEN failed
             ELSE IF Len(CoxPrepare(df).work) > 0
             THEN [(IF fits THEN [base EXCEPT !.shown = "plot"] ELSE failed)
                       EXCEPT !.source = CoxPrepare(df).source,
                              !.work = CoxPrepare(df).work,
                              !.fit = [called |-> TRUE, rows |-> CoxPrepare(df).work]]
             ELSE [base EXCEPT !.shown = "warning",
                       !.msg = "Insufficient data for Cox analysis after handling missing values.",
                       !.source = CoxPrepare(df).source,
                       !.work = CoxPrepare(df).work]
        ELSE [base EXCEPT !.shown = "warning",
                  !.msg = "Required columns for Cox analysis are not available."]

\* ---- XGBoost: fillna, train_test_split, fit, AUC ----

\* The non-missing values of a column.
Present(rows, col) == {i \in DOMAIN rows : rows[i][col] # None}

SumOver(rows, col, I) ==
    LET Sm[k \in 0..Len(rows)] ==
            IF k = 0 THEN 0
            ELSE Sm[k - 1] + (IF k \in I THEN rows[k][col] ELSE 0)
    IN  Sm[Len(rows)]

\* df[feature_cols].mean(): the mean of the values present, as a fraction;
\* NaN when the column holds no value.
Mean(rows, col) ==
    IF Present(rows, col) = {} THEN None
    ELSE [num |-> SumOver(rows, col, Present(rows, col)),
          den |-> Cardinality(Present(rows, col))]

\* X = df[feature_cols].fillna(df[feature_cols].mean())
FillNa(rows, cols) ==
    [i \in DOMAIN rows |->
        [c \in cols |-> IF rows[i][c] = None THEN Mean(rows, c)
                        ELSE [num |-> rows[i][c], den |-> 1]]]

\* X and y are new objects; the table passed in keeps its cells.
MLPrepare(df) ==
    [source |-> df, work |-> FillNa(df.rows, feature_cols)]

\* random_state=None: each invocation seeds the generator afresh.
RandomStateMutant(invocation) == invocation

\* random_state=42: the seed of the generator train_test_split shuffles with,
\* whichever invocation this is.
RandomState(invocation) == 42

\* RandomState(seed).permutation(n): a permutation of the positions 1..n that
\* the seed determines.  The model takes the rotation by the seed in place of
\* the generator's stream.
Permutation(seed, n) == [i \in 1..n |-> ((i - 1 + seed) % n) + 1]

\* ceil(test_size * n_samples) with test_size = 0.2
NTest(n) == (n + 4) \div 5

\* train_test_split(X, y, test_size=0.2, random_state=...): the first n_test
\* positions of the permutation are the test set, the rest the train set;
\* ValueError when the train set would be empty.
train_test_split(n, seed) ==
    IF n - NTest(n) = 0 THEN NoSplit
    ELSE [done |-> TRUE,
          test |-> SubSeq(Permutation(seed, n), 1, NTest(n)),
          train |-> SubSeq(Permutation(seed, n), NTest(n) + 1, n)]

\* roc_auc_score(y_test, y_pred) raises ValueError when y_test holds one class.
OneClass(rows, positions) ==
    Cardinality({rows[positions[k]].Crisis_Event : k \in DOMAIN positions}) < 2

\* display_ml_analysis(df) in the given invocation.  fits: whether
\* model.fit and the plots succeed.
display_ml_analysis(df, base, fits, invocation) ==
    LET failed == [base EXCEPT !.shown = "error",
                       !.msg = "Error performing ML analysis. Please check the data format."]
        split == train_test_split(Len(df.rows), RandomState(invocation))
        prepared == [base EXCEPT !.source = MLPrepare(df).source,
                                 !.work = MLPrepare(df).work,
                                 !.split = split]
    IN  IF (feature_cols \cup {"Crisis_Event"}) \subseteq df.cols
        THEN IF ~split.done
             THEN [prepared EXCEPT !.shown = failed.shown, !.msg = failed.msg]
             ELSE IF fits /\ ~OneClass(df.rows, split.test)
             THEN [prepared EXCEPT !.shown = "plot",
                       !.fit = [called |-> TRUE, rows |-> split.train]]
             ELSE [prepared EXCEPT !.shown = failed.shown, !.msg = failed.msg,
                       !.fit = [called |-> TRUE, rows |-> split.train]]
        ELSE [base EXCEPT !.shown = "warning",
                  !.msg = "Required features for ML analysis are not available."]

\* display_risk_analysis(df, analysis_choice): every exception of the three
\* analyses is caught here or in the analysis; the Bayesian option has no
\* branch.
display_risk_analysis(df, analysis_choice, fits, invocation) ==
    LET base == [NotAnalysed EXCEPT !.done = TRUE, !.input = df, !.source = df]
    IN  IF analysis_choice = KaplanMeier THEN display_kaplan_meier_analysis(df, base)
        ELSE IF analysis_choice = CoxPH THEN display_cox_analysis(df, base, fits)
        ELSE IF analysis_choice = XGBoost
        THEN display_ml_analysis(df, base, fits, invocation)
        ELSE base

\* int(df['Age'].min()) raises ValueError when no row has an Age.
AgeMetricRaises(df) ==
    "Age" \in df.cols /\ \A i \in DOMAIN df.rows : df.rows[i].Age = None

\* display_dashboard(df) as main calls it: the descriptive metrics, then the
\* chosen analysis.  An exception of the metrics leaves display_dashboard and
\* is reported by main.
Dashboard(df, analysis_choice, fits, invocation) ==
    IF IsEmpty(df)
    THEN [NotAnalysed EXCEPT !.done = TRUE, !.shown = "info", !.source = df,
              !.msg = "No data available. Please add entries using the Data Entry tab."]
    ELSE IF AgeMetricRaises(df)
    THEN [NotAnalysed EXCEPT !.done = TRUE, !.shown = "error", !.source = df,
              !.escaped = "display_dashboard",
              !.msg = "Error displaying dashboard. Please check the logs."]
    ELSE display_risk_analysis(df, analysis_choice, fits, invocation)

\* ---- Inputs of the analysis pipeline ----

AnalysisRow(grid, time, stress, burnout, isolation) ==
    [c \in AnalysisCols |->
        IF c \in DOMAIN grid THEN grid[c]
        ELSE IF c = "Time_To_Crisis" THEN time
        ELSE IF c = "Work_Stress_Level" THEN stress
        ELSE IF c = "Burnout_Level" THEN burnout
        ELSE IF c = "Social_Isolation" THEN isolation
        ELSE 5]

AnalysisRows ==
    { AnalysisRow([GridRow(1, 30, Male, Nurse, Emergency) EXCEPT !.Crisis_Event = 1],
                  1, 5, 6, 7),
      AnalysisRow([GridRow(2, 40, Female, Doctor, Surgery) EXCEPT !.Crisis_Event = 1],
                  0, 2, 2, 2),
      AnalysisRow(GridRow(3, None, Female, Nurse, Surgery), None, 9, 9, 9),
      AnalysisRow(GridRow(4, 50, Male, Doctor, Emergency), 2, 4, None, 4) }

AnalysisColSets ==
    { AnalysisCols, AnalysisCols \ {"Time_To_Crisis"},
      AnalysisCols \ {"Burnout_Level"}, AnalysisCols \ {"Despair"} }

\* A row of a DataFrame with the given columns: the other cells are absent.
ProjectTo(row, cols) == [c \in DOMAIN row |-> IF c \in cols THEN row[c] ELSE Missing(c)]

AnalysisTables ==
    {[cols |-> c, rows |-> [i \in DOMAIN rs |-> ProjectTo(rs[i], c)]] :
        c \in AnalysisColSets,
        rs \in UNION {[1..k -> AnalysisRows] : k \in 0..MaxAnalysisRows}}

\* The filter selections of the runs of the dashboard: none, or one gender.
AnalysisFilterVars ==
    { [keys |-> {}, val |-> AllChoices],
      [keys |-> {"selected_genders"},
       val |-> [AllChoices EXCEPT !.selected_genders = {Female}]] }

InitAnalysis ==
    /\ InitStore
    /\ fdf \in AnalysisTables
    /\ fterm = <<>>
    /\ fvars \in AnalysisFilterVars
    /\ fout = NotFiltered
    /\ fagain = NotFiltered
    /\ choice \in AnalysisChoices
    /\ run = 0
    /\ aout = NotAnalysed
    /\ SessionIdle

\* One run of the script: main passes the loaded table to display_dashboard.
\* The table is what the analysis left of it.
display_dashboard ==
    /\ run < MaxRuns
    /\ run' = run + 1
    /\ \E fits \in BOOLEAN : aout' = Dashboard(fdf, choice, fits, run + 1)
    /\ fdf' = aout'.source
    /\ UNCHANGED <<fterm, fvars, fout, fagain, choice>>
    /\ UNCHANGED <<storeVars, sessionVars>>

\* The same run: main passes the loaded table to display_database_front.
NextAnalysis == display_dashboard \/ ApplyFilters

SpecAnalysis == InitAnalysis /\ [][NextAnalysis]_vars

---------------------------------------------------------------------------
(* The export of the filtered view: display_filtered_results, export_data *)

MaxExportRows == 2

\* The columns of the tables exported in the model, and the text ones.
ExportCols == {"id", "Age", "Sex", "MH_Disorders"}
ExportTextCols == {"Sex", "MH_Disorders"}

Digit == <<"0", "1", "2", "3", "4", "5", "6", "7", "8", "9">>

\* str(n) of a non-negative integer
RECURSIVE IntStr(_)
IntStr(n) ==
    IF n < 10 THEN <<Digit[n + 1]>>
    ELSE IntStr(n \div 10) \o <<Digit[(n % 10) + 1]>>

\* A numeric column that holds a NaN is a float64 column.
IsFloat(rows, col) == \E i \in DOMAIN rows : rows[i][col] = None

\* astype(str) of a cell: text as it is, None as "None", NaN as "nan", an
\* integer of a float64 column with ".0".
CellStr(rows, col, v) ==
    IF col \in ExportTextCols THEN AsStr(v)
    ELSE IF v = None THEN <<"n", "a", "n">>
    ELSE IF IsFloat(rows, col) THEN IntStr(v) \o <<".", "0">>
    ELSE IntStr(v)

\* display_df = filtered_df[selected_columns].copy() with every column
\* converted to strings.
DisplayFrame(df, selected) ==
    [header |-> selected,
     rows |-> [i \in DOMAIN df.rows |->
                  [k \in DOMAIN selected |->
                      CellStr(df.rows, selected[k], df.rows[i][selected[k]])]]]

Comma == ","
Quote == "\""
Newline == "\n"

\* quoting=csv.QUOTE_NONE in place of QUOTE_MINIMAL: no field is quoted for
\* its content.
NeedsQuoteMutant(field) == FALSE

\* csv.QUOTE_MINIMAL: a field is quoted when it holds a delimiter, a quote or
\* a line break.
NeedsQuote(field) == \E k \in DOMAIN field : field[k] \in {Comma, Quote, Newline}

\* The field between quotes, each quote in it doubled.
Quoted(field) ==
    LET Esc[k \in 0..Len(field)] ==
            IF k = 0 THEN <<>>
            ELSE Esc[k - 1] \o (IF field[k] = Quote THEN <<Quote, Quote>> ELSE <<field[k]>>)
    IN  <<Quote>> \o Esc[Len(field)] \o <<Quote>>

\* The text of one field; the only field of a row is quoted when it is empty,
\* so that the line is not blank.
WriteField(field, alone) ==
    IF NeedsQuote(field) \/ (alone /\ field = <<>>) THEN Quoted(field) ELSE field

\* One line: the fields separated by commas, then the line terminator.
WriteRow(fields) ==
    LET Line[k \in 0..Len(fields)] ==
            IF k = 0 THEN <<>>
            ELSE Line[k - 1] \o (IF k > 1 THEN <<Comma>> ELSE <<>>)
                     \o WriteField(fields[k], Len(fields) = 1)
    IN  Line[Len(fields)] \o <<Newline>>

\* export_df.to_csv(index=False): the header line, then one line per row.  A
\* column name is one token of the text.
to_csv(frame) ==
    LET Lines[i \in 0..Len(frame.rows)] ==
            IF i = 0 THEN WriteRow([k \in DOMAIN frame.header |-> <<frame.header[k]>>])
            ELSE Lines[i - 1] \o WriteRow(frame.rows[i])
    IN  Lines[Len(frame.rows)]

\* The formats of the radio of export_data.  Of the two definitions of
\* export_data in the module the second is the one bound to the name.
export_formats == {"CSV", "Excel"}

\* export_data(df, selected_columns) with the radio on fmt; press: whether
\* the "Export Data" button was pressed in this run.
export_data(frame, selected, fmt, press) ==
    [done |-> TRUE, shown |-> "table", offered |-> export_formats,
     selected |-> selected,
     format |-> IF press THEN fmt ELSE "none",
     exported |-> press,
     table |-> frame,
     data |-> IF press /\ fmt = "CSV" THEN to_csv(frame) ELSE <<>>]

\* display_filtered_results(filtered_df, df), the second definition: the
\* export is offered when columns are selected and the view has a row.
display_filtered_results(view, selected, fmt, press) ==
    IF selected = <<>>
    THEN [NotExported EXCEPT !.done = TRUE, !.shown = "warning"]
    ELSE IF Len(DisplayFrame(view, selected).rows) > 0
    THEN export_data(DisplayFrame(view, selected), selected, fmt, press)
    ELSE [NotExported EXCEPT !.done = TRUE, !.shown = "table",
                             !.selected = selected,
                             !.table = DisplayFrame(view, selected)]

\* ---- Inputs of the export ----

ExportRow(id, age, sex, disorders) ==
    [id |-> id, Age |-> age, Sex |-> sex, MH_Disorders |-> disorders]

\* MH_Disorders is ','.join of the selected disorders: "None" by default,
\* empty when nothing is selected.
ExportRows ==
    { ExportRow(1, 30, Male, <<"N", "o", "n", "e">>),
      ExportRow(2, None, Female, <<"P", "T", "S", "D", ",", "B", "i", "p", "o", "l", "a", "r">>),
      ExportRow(3, 100, Female, <<>>) }

\* The loaded tables: display_database_front filters a table that has rows.
ExportTables ==
    {[cols |-> ExportCols, rows |-> rs] :
        rs \in UNION {[1..k -> ExportRows] : k \in 1..MaxExportRows}}

\* The selections of the multiselect "Choose columns:".
ColumnChoices ==
    { <<>>, <<"MH_Disorders">>, <<"Age", "Sex">>,
      <<"id", "Age", "Sex", "MH_Disorders">> }

InitExport ==
    /\ InitStore
    /\ fdf \in ExportTables
    /\ fterm = <<>>
    /\ fvars \in AnalysisFilterVars
    /\ fout = NotFiltered
    /\ fagain = NotFiltered
    /\ AnalysisIdle
    /\ SessionIdle

\* display_filtered_results(filtered_df, df) in display_database_front
DisplayFilteredResults ==
    /\ fout.done /\ ~fout.raised
    /\ ~eout.done
    /\ \E selected \in ColumnChoices, fmt \in export_formats, press \in BOOLEAN :
          eout' = display_filtered_results(fout.df, selected, fmt, press)
    /\ UNCHANGED <<conn, ui>>
    /\ UNCHANGED <<storeVars, filterVars, analysisVars>>

NextExport == ApplyFilters \/ DisplayFilteredResults

SpecExport == InitExport /\ [][NextExport]_vars

---------------------------------------------------------------------------
(* The connections of one store operation: get_db_connection, backup_database *)

MaxLeaked == 2

\* The operations that open a connection with get_db_connection.  The fetch
\* of the latest entries is not among them: display_recent_entries_management
\* fails before it can call get_latest_entries.
StoreOps == {"create", "load", "insert", "backup", "clear", "replace"}

\* A store operation is called.  conn.leaked counts the connections that are
\* open and owned by no operation.
BeginOperation ==
    /\ conn.pc = "idle"
    /\ \E op \in StoreOps :
          /\ op = "backup" => conn.leaked < MaxLeaked
          /\ conn' = [conn EXCEPT !.op = op, !.pc = "connect", !.raised = FALSE]
    /\ UNCHANGED <<eout, ui>>
    /\ UNCHANGED <<storeVars, filterVars, analysisVars>>

\* conn = sqlite3.connect(DB_PATH) in get_db_connection: the connection is
\* open and yielded, or sqlite3.Error is raised and conn is still None.
Connect ==
    /\ conn.pc = "connect"
    /\ \E ok \in BOOLEAN :
          conn' = IF ok
                  THEN [conn EXCEPT !.main = TRUE,
                                    !.pc = IF conn.op = "backup" THEN "open_target" ELSE "body"]
                  ELSE [conn EXCEPT !.pc = "exit", !.raised = TRUE]
    /\ UNCHANGED <<eout, ui>>
    /\ UNCHANGED <<storeVars, filterVars, analysisVars>>

\* The body of the with statement of an operation other than the backup: it
\* ends or it raises.
Body ==
    /\ conn.pc = "body"
    /\ \E ok \in BOOLEAN : conn' = [conn EXCEPT !.pc = "exit", !.raised = ~ok]
    /\ UNCHANGED <<eout, ui>>
    /\ UNCHANGED <<storeVars, filterVars, analysisVars>>

\* backup_conn = sqlite3.connect(backup_path)
OpenTarget ==
    /\ conn.pc = "open_target"
    /\ \E ok \in BOOLEAN :
          conn' = IF ok THEN [conn EXCEPT !.target = TRUE, !.pc = "copy"]
                  ELSE [conn EXCEPT !.pc = "exit", !.raised = TRUE]
    /\ UNCHANGED <<eout, ui>>
    /\ UNCHANGED <<storeVars, filterVars, analysisVars>>

\* conn.backup(backup_conn): when it raises, the statement after it,
\* backup_conn.close(), is not executed.
Copy ==
    /\ conn.pc = "copy"
    /\ \E ok \in BOOLEAN :
          conn' = IF ok THEN [conn EXCEPT !.pc = "close_target"]
                  ELSE [conn EXCEPT !.pc = "exit", !.raised = TRUE]
    /\ UNCHANGED <<eout, ui>>
    /\ UNCHANGED <<storeVars, filterVars, analysisVars>>

\* backup_conn.close()
CloseTarget ==
    /\ conn.pc = "close_target"
    /\ conn' = [conn EXCEPT !.target = FALSE, !.pc = "exit"]
    /\ UNCHANGED <<eout, ui>>
    /\ UNCHANGED <<storeVars, filterVars, analysisVars>>

\* The finally clause of get_db_connection closes conn when it was opened,
\* and the operation returns or raises to its caller.  A backup connection
\* still open is owned by nobody from here on.
Exit ==
    /\ conn.pc = "exit"
    /\ conn' = [conn EXCEPT !.main = FALSE, !.target = FALSE,
                            !.leaked = @ + (IF conn.target THEN 1 ELSE 0),
                            !.op = "idle", !.pc = "idle", !.last = conn.op]
    /\ UNCHANGED <<eout, ui>>
    /\ UNCHANGED <<storeVars, filterVars, analysisVars>>

\* The interpreter frees an unreferenced connection object at a moment of its
\* choice, which closes the connection.
Collect ==
    /\ conn.leaked > 0
    /\ conn' = [conn EXCEPT !.leaked = @ - 1]
    /\ UNCHANGED <<eout, ui>>
    /\ UNCHANGED <<storeVars, filterVars, analysisVars>>

NextConn ==
    \/ BeginOperation
    \/ Connect
    \/ Body
    \/ OpenTarget
    \/ Copy
    \/ CloseTarget
    \/ Exit
    \/ Collect

SpecConn == Init /\ [][NextConn]_vars

---------------------------------------------------------------------------
(* The script runs of a session: main, display_data_entry_form,
   display_database_backend, display_recent_entries_management *)

\* The widgets a user can act on.
EditModeBox == "Enable Edit Mode"
SubmitButton == "Submit Data"
BackupButton == "Create Backup"
ClearButton == "Clear Database"
ConfirmBox == "I understand this will delete all data"
SaveButton == "Save Changes"

\* The lines of display_recent_entries_management where get_latest_entries is
\* called and where the def statement binds it.
get_latest_entries_call == 1350
get_latest_entries_def == 1351

\* A name assigned in a function is local to it, and bound once the
\* statement that binds it has run.
LocalBound(use, def) == def < use

\* The values the form hands to insert_entry: its widgets keep them in range.
FormInputs ==
    { BaseEntry,
      With(With(With(BaseEntry, "Age", 100), "Sex", Female), "Healthcare_Role", Doctor) }

\* if edit_mode: the operations of the backend tab are shown with the
\* condition dropped.
BackendEnabledMutant(edit_mode) == TRUE

\* if edit_mode: the operations of the backend tab are shown in edit mode.
BackendEnabled(edit_mode) == edit_mode

\* display_recent_entries_management() over the stored rows: what the
\* section shows.
display_recent_entries_management(rows) ==
    IF ~LocalBound(get_latest_entries_call, get_latest_entries_def) THEN "error"
    ELSE IF rows = <<>> THEN "empty"
    ELSE "grid"

\* What the user can do next: load the page in a new session or act on a
\* widget of the page as it was rendered; after st.rerun() the script runs
\* again with no event.
UserEvents(u) ==
    IF u.stage = "rerun" THEN {"rerun"} ELSE {"open"} \cup u.rendered

\* The checkbox is shown in this run, inside the branch of the pressed button.
ConfirmShown(u) == BackendEnabled(u.edit_mode) /\ u.pressed = ClearButton

\* The value of the checkbox in this run: the value it was given in the page
\* rendered by the previous run, when that page had it.
ConfirmValue(u) == ConfirmShown(u) /\ ConfirmBox \in u.rendered /\ u.confirm

\* The store operation a run calls for the event it was started by.
Called(u, rows) ==
    IF u.pressed = SubmitButton THEN "insert"
    ELSE IF BackendEnabled(u.edit_mode) /\ u.pressed = BackupButton THEN "backup"
    ELSE IF ConfirmValue(u) THEN "clear"
    ELSE IF /\ BackendEnabled(u.edit_mode) /\ u.pressed = SaveButton
            /\ display_recent_entries_management(rows) = "grid" THEN "replace"
    ELSE "none"

\* The widgets of the page a run renders.
Rendered(u, rows) ==
    {EditModeBox, SubmitButton}
        \cup (IF BackendEnabled(u.edit_mode) THEN {BackupButton, ClearButton} ELSE {})
        \cup (IF ConfirmShown(u) THEN {ConfirmBox} ELSE {})
        \cup (IF /\ BackendEnabled(u.edit_mode)
                 /\ display_recent_entries_management(rows) = "grid"
              THEN {SaveButton} ELSE {})

\* An event starts a run of the script, which begins with load_data().  A
\* page opened anew is a new session, with every widget at its default.
StartRun ==
    /\ ui.stage \in {"idle", "rerun"}
    /\ \E e \in UserEvents(ui) :
          ui' = [ui EXCEPT !.stage = "running", !.pressed = e,
                           !.edit_mode = IF e = "open" THEN FALSE
                                         ELSE IF e = EditModeBox THEN ~@ ELSE @,
                           !.confirm = IF e = "open" THEN FALSE
                                       ELSE IF e = ConfirmBox THEN ~@ ELSE @,
                           !.rendered = IF e = "open" THEN {} ELSE @,
                           !.ticked = IF e = "open" THEN FALSE
                                      ELSE IF e = ConfirmBox THEN TRUE ELSE @]
    /\ load_data
    /\ UNCHANGED <<eout, conn>>
    /\ UNCHANGED <<filterVars, analysisVars>>

\* The rest of the run: the form and the backend tab act on the event, and
\* the page is rendered.  The state of a widget that is not rendered is
\* dropped; after a stored entry or a clear the script asks for a rerun.
FinishRun ==
    /\ ui.stage = "running"
    /\ IF Called(ui, store) = "insert"
       THEN \E data \in FormInputs : insert_entry(data)
       ELSE IF Called(ui, store) = "backup" THEN backup_database
       ELSE IF Called(ui, store) = "clear" THEN clear_database
       ELSE IF Called(ui, store) = "replace"
       THEN \E df \in ReplaceInputs : update_database_entries(df)
       ELSE UNCHANGED storeVars
    /\ ui' = [ui EXCEPT !.called = Called(ui, store),
                        !.recent = IF BackendEnabled(ui.edit_mode)
                                   THEN display_recent_entries_management(store)
                                   ELSE "none",
                        !.rendered = Rendered(ui, store),
                        !.confirm = ConfirmValue(ui),
                        !.stage = IF /\ Called(ui, store) \in {"insert", "clear", "replace"}
                                     /\ lastOp'.ok
                                  THEN "rerun" ELSE "idle"]
    /\ UNCHANGED <<eout, conn>>
    /\ UNCHANGED <<filterVars, analysisVars>>

\* The cached table expires between two runs.
ExpireBetweenRuns ==
    /\ ui.stage = "idle"
    /\ Expire
    /\ UNCHANGED <<filterVars, analysisVars, sessionVars>>

NextUI == StartRun \/ FinishRun \/ ExpireBetweenRuns

SpecUI == Init /\ [][NextUI]_vars

\* A run that has started ends, and the user keeps acting on the page.
SpecUIFair == SpecUI /\ WF_vars(StartRun) /\ WF_vars(FinishRun)

---------------------------------------------------------------------------
(* Claims about the record store and the cached load (under Spec) *)

\* The step is a call of load_data that read, or was answered, without a
\* storage error.
LoadStep == lastOp'.op = "load" /\ lastOp'.err = "none" /\ cache'.set

\* The step is a call of insert_entry; lastOp'.arg is the dict it was given.
InsertStep == lastOp'.op = "insert" /\ lastOp' # lastOp

\* The DataFrame load_data returned in the step: the cache entry after it.
Loaded == cache'.df

\* A record as the claims call valid: Age in [18,100], required fields present.
ValidRecord(data) ==
    /\ "Age" \in data.keys /\ data.val["Age"] # None
    /\ data.val["Age"] >= 18 /\ data.val["Age"] <= 100
    /\ \A f \in {"Sex", "Employment_Status", "Healthcare_Role"} :
          f \in data.keys /\ data.val[f] # NoneTxt /\ data.val[f] # <<>>

\* Two rows with the same field values, the id aside.
SameValues(r1, r2) == [r1 EXCEPT !.id = None] = [r2 EXCEPT !.id = None]

\* C1: from any reachable state, insert_entry of a valid record (Age in
\* [18,100], Sex, Employment_Status and Healthcare_Role non-empty) reports
\* success unless the storage fails, and the next load_data call returns a
\* table that contains the inserted row.
C1_InsertedRowIsLoaded ==
    [][ /\ (InsertStep /\ ValidRecord(lastOp'.arg) /\ lastOp'.err # "storage")
              => lastOp'.ok
        /\ (lastOp.op = "insert" /\ lastOp.ok /\ LoadStep)
              => \E i \in 1..Len(Loaded.rows) : Loaded.rows[i] = store[Len(store)]
      ]_vars

\* C2: after a successful insert_entry, clear_database or
\* update_database_entries, the next load_data call re-reads the store: it
\* returns the table as it stands, even when the cache entry has not expired.
C2_WriteInvalidatesCache ==
    [][ (lastOp.op \in {"insert", "clear", "replace"} /\ lastOp.ok /\ LoadStep)
            => Loaded = ReadTable ]_vars

\* C3: after clear_database a load_data call returns an empty table, and after
\* a subsequent valid insert_entry a load_data call returns exactly one row,
\* whose field values are the inserted ones (the id aside).
C3_ClearInsertLoad ==
    [][ /\ (phase = "cleared" /\ LoadStep) => Loaded.rows = <<>>
        /\ (phase = "reinserted" /\ LoadStep)
              => /\ Len(Loaded.rows) = 1
                 /\ SameValues(Loaded.rows[1], store[Len(store)])
      ]_vars

\* The Age of the record is a number below 18 or above 100.
AgeOutOfRange(data) ==
    /\ "Age" \in data.keys /\ data.val["Age"] # None
    /\ (data.val["Age"] < 18 \/ data.val["Age"] > 100)

\* C4: for every record whose Age is below 18 or above 100, insert_entry
\* fails validation, returns failure, and the stored rows are unchanged.
C4_AgeOutOfRangeRejected ==
    [][ (InsertStep /\ AgeOutOfRange(lastOp'.arg))
            => /\ ~lastOp'.ok
               /\ lastOp'.err = "validation"
               /\ store' = store
      ]_vars

\* An entry with Age out of range was rejected while rows were stored.
C4_Witness ==
    /\ lastOp.op = "insert" /\ ~lastOp.ok
    /\ lastOp.msg = "Age must be between 18 and 100"
    /\ store # <<>>

\* One of the required fields is missing from the record or empty in it.
RequiredMissing(data) ==
    \/ "Age" \notin data.keys \/ data.val["Age"] = None
    \/ \E f \in {"Sex", "Employment_Status", "Healthcare_Role"} :
          f \notin data.keys \/ data.val[f] = NoneTxt \/ data.val[f] = <<>>

\* C5: for every record in which Age, Sex, Employment_Status or
\* Healthcare_Role is missing or empty, validate_entry_data returns
\* (False, message), insert_entry returns failure, and the stored rows are
\* unchanged.
C5_RequiredFieldRejected ==
    [][ (InsertStep /\ RequiredMissing(lastOp'.arg))
            => /\ ~validate_entry_data(lastOp'.arg).ok
               /\ validate_entry_data(lastOp'.arg).msg # ""
               /\ ~lastOp'.ok
               /\ lastOp'.err = "validation"
               /\ lastOp'.msg = validate_entry_data(lastOp'.arg).msg
               /\ store' = store
      ]_vars

\* An entry without Employment_Status was rejected while rows were stored.
C5_Witness ==
    /\ lastOp.op = "insert" /\ ~lastOp.ok
    /\ lastOp.msg = "Employment_Status is required"
    /\ store # <<>>

\* C6: in every reachable state of the record store, every stored record has
\* Age in [18,100], its 0-10 scored field in [0,10] and Crisis_Event in {0,1}.
C6_StoredRecordsInRange ==
    \A i \in 1..Len(store) :
        /\ store[i].Age >= 18 /\ store[i].Age <= 100
        /\ store[i].Suicidal_Distress >= 0 /\ store[i].Suicidal_Distress <= 10
        /\ store[i].Crisis_Event \in {0, 1}

\* C7: in every reachable state of the record store, every stored record has
\* a non-null identifier distinct from that of every other stored record,
\* rows inserted after a bulk replace included.
C7_IdsUniqueNonNull ==
    \A i \in 1..Len(store) :
        /\ store[i].id # None
        /\ \A j \in 1..Len(store) : i # j => store[i].id # store[j].id

\* Every row stored before the step is stored, unchanged, after it.
RowsKept ==
    /\ Len(store') >= Len(store)
    /\ \A i \in 1..Len(store) : store'[i] = store[i]

\* C8: a record is immutable once written: insert_entry, load_data and
\* backup_database leave every stored row as it was; a step that changes or
\* removes a stored row is a clear_database or update_database_entries call.
C8_RecordsImmutable ==
    [][ RowsKept \/ (lastOp'.op \in {"clear", "replace"} /\ lastOp'.ok) ]_vars

\* An entry was inserted into a table that held a row already.
C8_Witness == lastOp.op = "insert" /\ lastOp.ok /\ Len(store) >= 2

\* C24: when a storage error occurs during insert_entry, the error is
\* reported, insert_entry returns failure and the stored rows are unchanged;
\* insert_entry returns success only when exactly one new row, the record it
\* was given, has been committed after the rows that were there.
C24_StorageErrorAborts ==
    [][ InsertStep
            => /\ lastOp'.err = "storage"
                     => ~lastOp'.ok /\ lastOp'.msg # "" /\ store' = store
               /\ lastOp'.ok
                     => /\ Len(store') = Len(store) + 1
                        /\ \A i \in 1..Len(store) : store'[i] = store[i]
                        /\ SameValues(store'[Len(store')], NewRow(None, lastOp'.arg))
      ]_vars

\* An insert failed on a storage error while a row was stored.
C24_Witness ==
    /\ lastOp.op = "insert" /\ ~lastOp.ok /\ lastOp.err = "storage"
    /\ lastOp.msg = "no such column"
    /\ store # <<>>

C30_FailedLoadIsCached ==
    [][ /\ (lastOp'.op = "load" /\ lastOp' # lastOp) => lastOp'.ok
        /\ (lastOp'.op = "load" /\ lastOp' # lastOp /\ lastOp'.err = "storage")
              => cache'.set /\ cache'.df = EmptyDF
        /\ (lastOp'.op = "load" /\ cache.set /\ cache'.set)
              => cache' = cache
      ]_vars

\* A load was answered with the empty table of a failed read although rows
\* are stored.
C30_Witness ==
    /\ lastOp.op = "load" /\ lastOp.msg = "hit"
    /\ cache.set /\ cache.df = EmptyDF
    /\ store # <<>>

---------------------------------------------------------------------------
(* Claims about the filter engine (under SpecFilter) *)

\* The closed numeric interval of a range criterion.
InRange(v, range) == v # None /\ v >= range[1] /\ v <= range[2]

\* The row satisfies every criterion configured in the invocation.
PassesConfigured(row) ==
    /\ fterm # <<>> => TextMask(fdf, fterm, row)
    /\ "age_range" \in fvars.keys => InRange(row.Age, fvars.val.age_range)
    /\ "risk_level" \in fvars.keys
          => InRange(row.Suicidal_Distress, fvars.val.risk_level)
    /\ "selected_genders" \in fvars.keys => row.Sex \in fvars.val.selected_genders
    /\ "selected_roles" \in fvars.keys
          => row.Healthcare_Role \in fvars.val.selected_roles
    /\ "selected_departments" \in fvars.keys
          => row.Department \in fvars.val.selected_departments
    /\ "crisis_filter" \in fvars.keys => row.Crisis_Event \in fvars.val.crisis_filter

\* C9: the filtered view is exactly the rows that satisfy every configured
\* criterion: the term, the Age and Suicidal Distress ranges and the Sex,
\* Healthcare Role, Department and Crisis Event selections.
C9_FilterIsConjunction ==
    (fout.done /\ ~fout.raised /\ fdf.cols = AllCols)
        => fout.df.rows = SelectSeq(fdf.rows, PassesConfigured)

\* The term occurs in s as a literal substring, case aside.
LiteralIn(term, s) ==
    \E i \in 1..(Len(s) + 1) :
        /\ i + Len(term) - 1 <= Len(s)
        /\ \A k \in 1..Len(term) : Lower(term[k]) = Lower(s[i + k - 1])

\* The term occurs literally in the string form of a text column of the row.
LiteralMatch(row) ==
    \E col \in TextCols \cap fdf.cols : LiteralIn(fterm, AsStr(row[col]))

\* C10: with a non-empty term a row passes the free-text filter iff the term
\* occurs, case aside, as a literal substring of the string form of a text
\* column of the row; with an empty term the free-text filter removes no row.
\* (Stated of the calls that return, with no other criterion configured.)
C10_FreeTextIsLiteralSubstring ==
    (fout.done /\ ~fout.raised /\ fvars.keys = {})
        => fout.df.rows =
               IF fterm = <<>> THEN fdf.rows ELSE SelectSeq(fdf.rows, LiteralMatch)

\* C11: every row of apply_filters(table, criteria) is a row of table, and
\* with an empty search term and no filter variables apply_filters returns
\* the table unchanged: the same columns, all rows, in the same order.
C11_FilterIsSubset ==
    /\ (fout.done /\ ~fout.raised)
          => /\ fout.df.cols = fdf.cols
             /\ \A i \in 1..Len(fout.df.rows) :
                    \E j \in 1..Len(fdf.rows) : fout.df.rows[i] = fdf.rows[j]
    /\ (fout.done /\ fterm = <<>> /\ fvars.keys = {})
          => ~fout.raised /\ fout.df = fdf

\* A call with criteria returned some of the rows of a table and not others.
C11_Witness ==
    /\ fout.done /\ ~fout.raised
    /\ fvars.keys # {}
    /\ fout.df.rows # <<>>
    /\ Len(fout.df.rows) < Len(fdf.rows)

\* C12: filtering is idempotent: apply_filters applied with the same criteria
\* to the table it returned gives that table again.
C12_FilterIsIdempotent ==
    fagain.done => ~fagain.raised /\ fagain.df = fout.df

\* The second application ran on a result from which the first had removed
\* rows and kept others.
C12_Witness ==
    /\ fagain.done
    /\ fout.df.rows # <<>>
    /\ Len(fout.df.rows) < Len(fdf.rows)

\* The filter variables whose column the table has.
PresentVars ==
    [fvars EXCEPT !.keys = {f \in @ : f \in FiltersRead => FilterCol[f] \in fdf.cols}]

\* C13: apply_filters has no error outcome: for every table, search term and
\* set of filter variables it returns a result, and a filter variable that
\* refers to a column (Age, Sex) absent from the table is skipped.
C13_FiltersNeverRaise ==
    fout.done
        => /\ ~fout.raised
           /\ fout.df = apply_filters(fdf, fterm, PresentVars).df

---------------------------------------------------------------------------
(* Claims about the analysis pipeline (under SpecAnalysis) *)

\* display_risk_analysis was handed a table in the last run.
Handed == aout.done /\ aout.input # EmptyDF

\* The row has a value in each of the columns.
CompleteRow(row, cols) == \A c \in cols : row[c] # None

\* The rows of the table handed over that have a value in each of the columns.
CompleteRows(cols) ==
    LET Ok(row) == CompleteRow(row, cols)
    IN  SelectSeq(Select(aout.input.rows, cols), Ok)

\* C14: the table handed to the analysis pipeline in an interaction is the
\* output of the filter engine for the interaction's criteria: a row that the
\* active filters exclude is not part of the input of the analysis.
C14_AnalysisInputIsFiltered ==
    (Handed /\ ~apply_filters(fdf, fterm, fvars).raised)
        => aout.input = apply_filters(fdf, fterm, fvars).df

\* C15: every analysis mode, and apply_filters, leave the table they are
\* given as it was: no step changes its columns, its rows or their values.
C15_SourceUnchanged == [][fdf' = fdf]_vars

\* The hazards regression ran on a working copy that has fewer rows than the
\* table it was given, and the table was filtered as well.
C15_Witness ==
    /\ Handed /\ choice = CoxPH /\ aout.fit.called
    /\ Len(aout.work) < Len(fdf.rows)
    /\ fout.done /\ Len(fout.df.rows) < Len(fdf.rows)

\* C16: survival mode drops the rows with a missing Time_To_Crisis or
\* Crisis_Event before fitting; when either column is absent or no row is
\* left it reports insufficient data, without fitting and without an error.
C16_SurvivalDropsMissing ==
    (Handed /\ choice = KaplanMeier)
        => /\ aout.fit.called => aout.fit.rows = CompleteRows(DurationEvent)
           /\ (~(DurationEvent \subseteq aout.input.cols)
                  \/ CompleteRows(DurationEvent) = <<>>)
                 => aout.shown = "warning" /\ ~aout.fit.called
           /\ aout.shown # "error"

\* C17: hazards-regression mode fits only on the rows with no missing value
\* in Time_To_Crisis, Crisis_Event, Age, Work_Stress_Level, Burnout_Level and
\* Social_Isolation; when no such row remains it reports insufficient data
\* and does not call the fit.  (Of tables that have the six columns.)
C17_CoxFitsCompleteRows ==
    (Handed /\ choice = CoxPH /\ (DurationEvent \cup covariates) \subseteq aout.input.cols)
        => /\ aout.fit.called
                 => /\ aout.fit.rows = CompleteRows(DurationEvent \cup covariates)
                    /\ aout.fit.rows # <<>>
           /\ CompleteRows(DurationEvent \cup covariates) = <<>>
                 => /\ ~aout.fit.called
                    /\ aout.shown = "warning"
                    /\ aout.msg = "Insufficient data for Cox analysis after handling missing values."

\* The fit was called on fewer rows than the table has.
C17_Witness ==
    /\ Handed /\ choice = CoxPH /\ aout.fit.called
    /\ Len(aout.fit.rows) < Len(aout.input.rows)

\* The columns an analysis mode requires.
RequiredCols ==
    IF choice = KaplanMeier THEN DurationEvent
    ELSE IF choice = CoxPH THEN DurationEvent \cup covariates
    ELSE IF choice = XGBoost THEN feature_cols \cup {"Crisis_Event"}
    ELSE {}

\* The rows that are usable after the cleaning of the mode: the complete
\* rows for the two survival modes; every row for the classifier, which fills
\* the missing values in.
UsableRows ==
    IF choice \in {KaplanMeier, CoxPH} THEN CompleteRows(RequiredCols)
    ELSE aout.input.rows

\* C18: for every analysis mode and input table, when a required column is
\* missing or no usable row remains after cleaning, the analysis ends with an
\* 'unavailable' warning, and no exception leaves display_risk_analysis.
C18_UnavailableIsWarning ==
    Handed
        => /\ aout.escaped = "none"
           /\ (~(RequiredCols \subseteq aout.input.cols) \/ UsableRows = <<>>)
                 => aout.shown = "warning"

\* C19: for every non-empty set of (Time_To_Crisis, Crisis_Event) pairs the
\* survival-mode output is a sequence of probabilities, each in [0,1], that
\* never increases as time increases and starts at or below 1.
C19_SurvivalIsNonIncreasing ==
    (Handed /\ choice = KaplanMeier /\ aout.shown = "plot")
        => /\ aout.surv # <<>>
           /\ \A k \in DOMAIN aout.surv :
                 /\ aout.surv[k].den > 0
                 /\ 0 <= aout.surv[k].num
                 /\ aout.surv[k].num <= aout.surv[k].den
                 /\ k > 1 => /\ aout.surv[k - 1].t < aout.surv[k].t
                             /\ aout.surv[k].num * aout.surv[k - 1].den
                                    <= aout.surv[k - 1].num * aout.surv[k].den

\* A curve that starts below 1, falls again, and ends above 0.
C19_Witness ==
    /\ Handed /\ choice = KaplanMeier /\ aout.shown = "plot"
    /\ Len(aout.surv) >= 3
    /\ aout.surv[1].num < aout.surv[1].den
    /\ aout.surv[2].num * aout.surv[1].den < aout.surv[1].num * aout.surv[2].den
    /\ aout.surv[Len(aout.surv)].num > 0

\* The classifier reached train_test_split in the run that gave outcome a.
SplitAttempted(a) ==
    /\ a.done /\ a.input # EmptyDF
    /\ choice = XGBoost
    /\ (feature_cols \cup {"Crisis_Event"}) \subseteq a.input.cols

Range(sq) == {sq[k] : k \in DOMAIN sq}

\* Train and test are disjoint and together hold every row of the input.
IsPartition(a) ==
    /\ a.split.done
    /\ Range(a.split.train) \cap Range(a.split.test) = {}
    /\ Range(a.split.train) \cup Range(a.split.test) = DOMAIN a.input.rows
    /\ Len(a.split.train) + Len(a.split.test) = Len(a.input.rows)

\* Two invocations on the same table give the same partition.
SameSplitAgain ==
    (aout.split.done /\ aout'.split.done /\ aout'.input = aout.input)
        => aout'.split = aout.split

\* C20: classification mode partitions the input rows into a train set and a
\* test set that are disjoint and together contain every input row, the test
\* set holds 20% of the rows, and the partition is the same on every
\* invocation with the same table.
C20_SplitIs8020 ==
    [][ /\ SplitAttempted(aout')
              => /\ IsPartition(aout')
                 /\ 5 * Len(aout'.split.test) = Len(aout'.input.rows)
        /\ SameSplitAgain
      ]_vars

\* C20, amended: on a table of at least two rows classification mode
\* partitions the rows into disjoint train and test sets that together
\* contain every row, the test set holds the smallest whole number of rows
\* that is at least 20% of them, and the partition is the same on every
\* invocation with the same table; on a table of one row nothing is split and
\* the mode reports an error.
C20_SplitIsCeil20 ==
    [][ /\ SplitAttempted(aout')
              => IF Len(aout'.input.rows) >= 2
                 THEN /\ IsPartition(aout')
                      /\ 5 * Len(aout'.split.test) >= Len(aout'.input.rows)
                      /\ 5 * (Len(aout'.split.test) - 1) < Len(aout'.input.rows)
                 ELSE /\ ~aout'.split.done
                      /\ aout'.shown = "error"
                      /\ aout'.msg = "Error performing ML analysis. Please check the data format."
        /\ SameSplitAgain
      ]_vars

\* The classifier split a table of three rows in a second invocation.
C20_Witness ==
    /\ SplitAttempted(aout) /\ aout.split.done
    /\ run >= 2
    /\ Len(aout.input.rows) >= 3

\* C29: for a non-empty table every analysis model selectable in the
\* dashboard ends the interaction with an analysis result or an explicit
\* warning or error message; no choice ends with neither.
C29_EveryChoiceReports == Handed => aout.shown # "none"

---------------------------------------------------------------------------
(* Claims about the export (under SpecExport) *)

\* The cells of the filtered view under the selected columns, as text.
ViewCells ==
    [i \in DOMAIN fout.df.rows |->
        [k \in DOMAIN eout.selected |->
            CellStr(fout.df.rows, eout.selected[k], fout.df.rows[i][eout.selected[k]])]]

\* C21: the export offered for the filtered view supports the three formats
\* CSV, Excel and JSON, and the exported data holds exactly the rows of the
\* filtered view under the selected columns.
C21_ExportAllFormats ==
    (eout.done /\ eout.selected # <<>> /\ Len(fout.df.rows) > 0)
        => /\ eout.offered = {"CSV", "Excel", "JSON"}
           /\ eout.exported
                 => /\ eout.table.header = eout.selected
                    /\ eout.table.rows = ViewCells

\* The positions of a text, in order.
Positions(text) == [k \in 1..Len(text) |-> k]

\* The character at k of a CSV text is between quotes: the quotes before it
\* are odd in number (a doubled quote closes and opens again).
InQuotes(text, k) ==
    Cardinality({j \in 1..(k - 1) : text[j] = Quote}) % 2 = 1

\* The positions of the separators c of a CSV text: the ones outside quotes.
Separators(text, c) ==
    SelectSeq(Positions(text), LAMBDA k : text[k] = c /\ ~InQuotes(text, k))

\* The pieces of text[from..to] between the separators c, as pairs of
\* positions; the piece after the last separator is included when last.
Pieces(text, from, to, c, last) ==
    LET seps == SelectSeq(Separators(text, c), LAMBDA k : from <= k /\ k <= to)
        n    == Len(seps)
    IN  [j \in 1..(IF last THEN n + 1 ELSE n) |->
            <<IF j = 1 THEN from ELSE seps[j - 1] + 1,
              IF j = n + 1 THEN to ELSE seps[j] - 1>>]

\* The value of the field text[from..to]: the quotes that open and close it
\* are dropped, and of a doubled quote one is kept.
FieldValue(text, from, to) ==
    LET kept == SelectSeq(Positions(text),
                    LAMBDA k : /\ from <= k /\ k <= to
                               /\ text[k] = Quote => (k > from /\ ~InQuotes(text, k)))
    IN  [j \in 1..Len(kept) |-> text[kept[j]]]

\* The records of a CSV text, the header first: one per line, blank lines
\* skipped, each the values of its comma-separated fields.
ReadCsv(text) ==
    LET lines == SelectSeq(Pieces(text, 1, Len(text), Newline,
                                  Len(text) > 0 /\ text[Len(text)] # Newline),
                           LAMBDA p : p[1] <= p[2])
    IN  [i \in 1..Len(lines) |->
            LET fields == Pieces(text, lines[i][1], lines[i][2], Comma, TRUE)
            IN  [k \in 1..Len(fields) |-> FieldValue(text, fields[k][1], fields[k][2])]]

---------------------------------------------------------------------------
(* Claims about the connections (under SpecConn) *)

\* C23: when a store operation has finished, whether it succeeded or raised,
\* every connection it opened (the backup target included) is closed: no
\* connection is open between operations.
C23_NoConnectionBetweenOperations ==
    conn.pc = "idle" => (~conn.main /\ ~conn.target /\ conn.leaked = 0)

---------------------------------------------------------------------------
(* Claims about the backend tab (under SpecUI and SpecUIFair) *)

\* C26: in edit mode with a non-empty store the Recent Entries Management
\* section shows the recent entries in the editable grid, so that Save Changes
\* (update_database_entries) can be reached.
C26_GridShownInEditMode ==
    (ui.stage = "idle" /\ ui.rendered # {} /\ ui.edit_mode /\ store # <<>>)
        => (ui.recent = "grid" /\ SaveButton \in ui.rendered)

\* C27: in edit mode, once the user has pressed Clear Database and then ticked
\* the checkbox, clear_database is eventually executed and the store is empty.
C27_ConfirmedClearHappens ==
    ui.ticked ~> (ui.called = "clear" /\ store = <<>>)

\* C28: a run with edit mode disabled calls none of backup_database,
\* clear_database and update_database_entries; it keeps every stored row and
\* the table's columns, and the store changes only through insert_entry.
C28_EditModeGuardsBackend ==
    [][ (ui.stage = "running" /\ ui'.stage # "running" /\ ~ui.edit_mode)
            => /\ ui'.called \in {"none", "insert"}
               /\ Len(store') >= Len(store)
               /\ \A i \in 1..Len(store) : store'[i] = store[i]
               /\ schema' = schema
               /\ store' # store => ui'.called = "insert" ]_vars

\* With edit mode disabled and a row stored, the form has stored another row.
C28_Witness ==
    /\ ~ui.edit_mode /\ ui.stage = "rerun"
    /\ ui.called = "insert" /\ lastOp.ok
    /\ Len(store) > 1

====
